---- MODULE Spec2Model ----
(***************************************************************************)
(* braintrust-examples: the session/turn tracing middleware of             *)
(* py/adk-web/unified_tracing.py and the on_message handlers of the two    *)
(* chat applications (py/app.py, py/langchain/app.py).                     *)
(*                                                                         *)
(* Strings of the program are TLA+ strings; f-strings are \o.  A dict is a *)
(* function whose DOMAIN is its key set (<< >> is the empty dict).  Python *)
(* None is the string None below.                                          *)
(***************************************************************************)
EXTENDS Integers, Sequences, FiniteSets, TLC

(* ---------------------------------------------------------------- bounds *)
\* traced run requests (turn spans) over one behaviour
MaxTurns == 2
\* last clock value, in seconds
MaxTime == 3601
\* chunks one streamed response body yields
MaxChunks == 1
\* run requests the server processes at the same time
MaxInFlight == 2

\* seconds the clock may advance in one step
TickSteps == {1800, 1801}

(* ------------------------------------------------------ program constants *)
SESSION_EXPIRY_SECONDS == 3600
INSTANCE_COOKIE_NAME == "adk_server_instance"
API_KEY_NAME == "BRAINTRUST_API_KEY"
None == "None"

VARIABLES
    environ,              \* os.environ of the running process
    logger,               \* None or "Logger"
    tracing_enabled,
    SERVER_INSTANCE_ID,   \* uuid4 string of the running process
    phase,                \* "serving" | "stopped" (shutdown_event has run)
    now,                  \* time.time()
    uuid_count,           \* uuid4 values drawn for session ids so far
    session_spans,        \* session key -> span (index into bt_sessions)
    session_turn_counts,  \* session key -> int
    session_last_access,  \* session key -> float
    session_metadata,     \* session key -> metadata dict
    bt_sessions,          \* every adk_session span ever started, in order
    turns,                \* every turn span ever started, with its request
    last_response         \* the response to the last run request served untraced

mwVars == <<environ, logger, tracing_enabled, SERVER_INSTANCE_ID, phase, now,
            uuid_count, session_spans, session_turn_counts, session_last_access,
            session_metadata, bt_sessions, turns, last_response>>

VARIABLES
    chat_app,             \* "py/app.py" | "py/langchain/app.py"
    PROVIDER,             \* "openai" | "anthropic"
    cpc,                  \* where main() of the chat application stands
    handled,              \* messages main() has been called for
    outcome,              \* how the last main() ended: None, "sent", "raised"
    question,             \* message.content
    message_history,      \* ChatMessageHistory.messages
    source_documents,     \* number of documents the retriever returned
    messages,             \* the request messages built for the model
    answer,
    ui_stream,            \* the tokens given to msg.stream_token, in order
    delivered,            \* content tokens the model streams delivered and search
                          \* notices of the searches run, in order
    tool_calls,
    current_tool_call,    \* << >> for None, <<call>> for a dict
    tool_i,               \* position of the for loop over tool_calls
    n_events,             \* chunks or events the current stream has delivered
    llm_requests,         \* chat-completion requests of this main()
    spans,                \* every span started in the chat session
    span_events,          \* start and end calls on spans, in order
    span,                 \* the conversation_turn span of this main()
    llm_span,
    search_span

chatVars == <<chat_app, PROVIDER, cpc, handled, outcome, question, message_history,
              source_documents, messages, answer, ui_stream, delivered, tool_calls,
              current_tool_call, tool_i, n_events, llm_requests, spans, span_events,
              span, llm_span, search_span>>

VARIABLES
    bot_pc,               \* where main() of customer_service_chatbot.py stands
    bot_k,                \* 1-based position of its for loop over CONVERSATIONS
    span_ids,
    bot_events,           \* span starts and ends, flush and the final print, in order
    project_logs,         \* the spans of the Braintrust project logged in this behaviour
    backlog,              \* conversation spans of earlier chatbot runs, still unscored
    backlog_scored,       \* conversation spans of earlier chatbot runs, scored
    scorer,               \* score_traces.py processes: where main() stands, its rows
    updates               \* the span updates score_traces.py has made, in order

patchVars == <<bot_pc, bot_k, span_ids, bot_events, project_logs, backlog,
               backlog_scored, scorer, updates>>

VARIABLES
    ce_environ,           \* os.environ of the remote chatbot eval
    ce_hooks,             \* hooks given to task_wrapper: "parameters" -> dict, or << >>
    ce_pc,                \* "ready" | "calling" | "returned" | "raised" ("off")
    ce_calls,             \* provider functions called, with their model
    ce_result,            \* what task_wrapper returned or raised

    ae_cwd,               \* os.getcwd() of the remote agent eval, as its pieces
    ae_hooks,
    ae_pc,                \* "ready" | "running" | "returned" | "raised" | "exited"
    ae_runs,              \* argument lists subprocess.run was called with
    ae_process,           \* << >>, or returncode and stdout of the ended Ruby process
    ae_result

chatbotEvalVars == <<ce_environ, ce_hooks, ce_pc, ce_calls, ce_result>>
agentEvalVars == <<ae_cwd, ae_hooks, ae_pc, ae_runs, ae_process, ae_result>>

\* the variables each program leaves alone
notMwVars == <<chatVars, patchVars, chatbotEvalVars, agentEvalVars>>
notChatVars == <<mwVars, patchVars, chatbotEvalVars, agentEvalVars>>
notPatchVars == <<mwVars, chatVars, chatbotEvalVars, agentEvalVars>>
notChatbotEvalVars == <<mwVars, chatVars, patchVars, agentEvalVars>>
notAgentEvalVars == <<mwVars, chatVars, patchVars, chatbotEvalVars>>

vars == <<mwVars, chatVars, patchVars, chatbotEvalVars, agentEvalVars>>

(* ------------------------------------------------------------- dict helpers *)
Put(d, k, v) == (k :> v) @@ d
Pop(d, k) == [x \in (DOMAIN d) \ {k} |-> d[x]]
PopAll(d, ks) == [x \in (DOMAIN d) \ ks |-> d[x]]
Get(d, k, default) == IF k \in DOMAIN d THEN d[k] ELSE default

\* uuid.uuid4(): the n-th value drawn for a session id differs from every other one
uuid4(n) == "uuid" \o ToString(n)
\* str(uuid.uuid4()) of the n-th process: 1 is the running one, 0 one that ran before
InstanceUuid(n) == "instance" \o ToString(n)


(* --------------------------------------------------------------- requests *)
\* request.url.path values; "/run" in path holds of the last two
Paths == {"/list-apps", "/run", "/run_sse"}
is_run_path(path) == path \in {"/run", "/run_sse"}
is_sse_path(path) == path = "/run_sse"

\* request.cookies as the client may send it: no instance cookie, an empty one,
\* the running instance's, or the one a process that ran earlier had set
CookieJars ==
    { << >>, (INSTANCE_COOKIE_NAME :> ""), (INSTANCE_COOKIE_NAME :> SERVER_INSTANCE_ID),
      (INSTANCE_COOKIE_NAME :> InstanceUuid(0)) }

\* The referer header: absent, a URL urlparse rejects, or a URL with a query string
\* (its name=value pairs, in order).
Referer(present, wellformed, query) ==
    [present |-> present, wellformed |-> wellformed, query |-> query]
QP(name, value) == [name |-> name, value |-> value]
NoReferer == Referer(FALSE, TRUE, << >>)
BadReferer == Referer(TRUE, FALSE, <<QP("session", "s1")>>)
RefFull == Referer(TRUE, TRUE,
                   <<QP("app", "a1"), QP("session", ""), QP("session", "s2"),
                     QP("userId", "u1")>>)
RefGenerated(n) == Referer(TRUE, TRUE, <<QP("session", "session_" \o uuid4(n))>>)
Referers ==
    {NoReferer, BadReferer, RefFull}
    \cup { RefGenerated(n) : n \in 1..uuid_count }

\* parse_qs(query)[name]: the non-blank values given for name, in order
\* (keep_blank_values is off); name is a key of the result iff this is non-empty
parse_qs(query, name) ==
    LET hit(p) == p.name = name /\ p.value # ""
        sel == SelectSeq(query, hit)
    IN [i \in 1..Len(sel) |-> sel[i].value]

(* ------------------------------------------------------------ the span SDK *)
\* What span.log(...); span.end() does inside a try block that swallows exceptions:
\* both succeed, log raises (end is then skipped), or end raises.
EndOutcomes == {"ok", "log_raises", "end_raises"}

\* try: span.log(output={"status": status}); span.end()  except Exception: print
TryLogEnd(sp, status, result) ==
    IF result = "log_raises"
    THEN sp
    ELSE [sp EXCEPT !.status = status, !.end_calls = @ + 1]

(* ------------------------------------------------- cleanup_expired_sessions *)
\* The session dictionaries as one value, so that the steps of a handler compose.
Dicts == [spans |-> session_spans, counts |-> session_turn_counts,
          access |-> session_last_access, meta |-> session_metadata,
          bt |-> bt_sessions]

IsExpiredMutGeq(current_time, last_access) ==
    current_time - last_access >= SESSION_EXPIRY_SECONDS
IsExpired(current_time, last_access) ==
    current_time - last_access > SESSION_EXPIRY_SECONDS

expired_keys(d, current_time) ==
    { k \in DOMAIN d.access : IsExpired(current_time, d.access[k]) }

\* f: the outcome of log/end for each expired key that has a span
cleanup_expired_sessionsMutKeepsMetadata(d, current_time, f) ==
    IF d.spans = << >>
    THEN d
    ELSE LET ex == expired_keys(d, current_time)
             hit == { d.spans[k] : k \in ex \cap DOMAIN d.spans }
             keyOf(i) == CHOOSE k \in ex \cap DOMAIN d.spans : d.spans[k] = i
         IN [spans |-> PopAll(d.spans, ex),
             counts |-> PopAll(d.counts, ex),
             access |-> PopAll(d.access, ex),
             meta |-> d.meta,
             bt |-> [i \in DOMAIN d.bt |->
                        IF i \in hit
                        THEN TryLogEnd(d.bt[i], "expired", f[keyOf(i)])
                        ELSE d.bt[i]]]
cleanup_expired_sessions(d, current_time, f) ==
    IF d.spans = << >>
    THEN d
    ELSE LET ex == expired_keys(d, current_time)
             hit == { d.spans[k] : k \in ex \cap DOMAIN d.spans }
             keyOf(i) == CHOOSE k \in ex \cap DOMAIN d.spans : d.spans[k] = i
         IN [spans |-> PopAll(d.spans, ex),
             counts |-> PopAll(d.counts, ex),
             access |-> PopAll(d.access, ex),
             meta |-> PopAll(d.meta, ex),
             bt |-> [i \in DOMAIN d.bt |->
                        IF i \in hit
                        THEN TryLogEnd(d.bt[i], "expired", f[keyOf(i)])
                        ELSE d.bt[i]]]

\* the outcome assignments a sweep at current_time can meet
SweepFaults(d, current_time) ==
    IF d.spans = << >>
    THEN {<< >>}
    ELSE [expired_keys(d, current_time) \cap DOMAIN d.spans -> EndOutcomes]

(* ------------------------------------------------------------ session keys *)
get_session_key(app_name, user_id, session_id) ==
    app_name \o ":" \o user_id \o ":" \o session_id

(* ---------------------------------------------- get_or_create_session_span *)
\* Returns the dictionaries after the call and, in ret, the span returned
\* (an index into bt; NoSpan, Python's None, when there is no logger).
NoSpan == 0
get_or_create_session_span(d, session_key, metadata, lg, current_time, instance) ==
    IF lg = None
    THEN [d |-> d, ret |-> NoSpan]
    ELSE LET a == Put(d.access, session_key, current_time)
         IN IF session_key \in DOMAIN d.spans
            THEN [d |-> [d EXCEPT !.access = a], ret |-> d.spans[session_key]]
            ELSE LET id == Len(d.bt) + 1
                     new_span == [key |-> session_key, instance |-> instance,
                              status |-> None, end_calls |-> 0]
                 IN [d |-> [spans |-> Put(d.spans, session_key, id),
                            counts |-> Put(d.counts, session_key, 0),
                            access |-> a,
                            meta |-> Put(d.meta, session_key, metadata),
                            bt |-> Append(d.bt, new_span)],
                     ret |-> id]

(* --------------------------------------------------- check_server_instance *)
check_server_instanceMutNoEmpty(cookies, instance) ==
    IF INSTANCE_COOKIE_NAME \notin DOMAIN cookies
    THEN TRUE
    ELSE cookies[INSTANCE_COOKIE_NAME] = instance
check_server_instance(cookies, instance) ==
    LET client_instance_id == Get(cookies, INSTANCE_COOKIE_NAME, None)
    IN IF client_instance_id = None \/ client_instance_id = ""
       THEN TRUE
       ELSE IF client_instance_id # instance
            THEN FALSE
            ELSE TRUE

(* ---------------------------------------------------- extract_session_info *)
\* fresh: the uuid4 value drawn if a session id has to be generated
extract_session_info(referer, force_new, fresh) ==
    LET parsed == ~force_new /\ referer.present /\ referer.wellformed
        sv == IF parsed THEN parse_qs(referer.query, "session") ELSE << >>
        av == IF parsed THEN parse_qs(referer.query, "app") ELSE << >>
        uv == IF parsed THEN parse_qs(referer.query, "userId") ELSE << >>
        sid == IF sv # << >> THEN sv[1] ELSE None
        gen == force_new \/ sid = None \/ sid = ""
    IN [app_name |-> IF av # << >> THEN av[1] ELSE "research_assistant",
        user_id |-> IF uv # << >> THEN uv[1] ELSE "default_user",
        session_id |-> IF gen THEN "session_" \o fresh ELSE sid,
        generated |-> gen]

\* the session id the referer carries, None when it carries none
referer_session(referer) ==
    LET sv == IF referer.present /\ referer.wellformed
              THEN parse_qs(referer.query, "session") ELSE << >>
    IN IF sv # << >> THEN sv[1] ELSE None

\* the session key the referer denotes by itself (its app, userId and session values,
\* the defaults for app and userId when it gives none); None when it carries no session
referer_key(referer) ==
    IF referer_session(referer) = None
    THEN None
    ELSE LET av == parse_qs(referer.query, "app")
             uv == parse_qs(referer.query, "userId")
         IN get_session_key(IF av # << >> THEN av[1] ELSE "research_assistant",
                            IF uv # << >> THEN uv[1] ELSE "default_user",
                            referer_session(referer))

(* ------------------------------------------------------ module initialisation *)
Environs == { << >>, (API_KEY_NAME :> ""), (API_KEY_NAME :> "sk-bt") }

\* lines 33-46: logger and tracing_enabled from the environment
init_tracingMutAlwaysOn(env) ==
    LET braintrust_api_key == Get(env, API_KEY_NAME, None)
    IN [logger |-> IF braintrust_api_key = None \/ braintrust_api_key = ""
                   THEN None ELSE "Logger",
        tracing_enabled |-> TRUE]
init_tracing(env) ==
    LET braintrust_api_key == Get(env, API_KEY_NAME, None)
    IN IF braintrust_api_key = None \/ braintrust_api_key = ""
       THEN [logger |-> None, tracing_enabled |-> FALSE]
       ELSE [logger |-> "Logger", tracing_enabled |-> TRUE]

NoResponse == [path |-> None, set_cookie |-> None]

MwInit ==
    /\ environ \in Environs
    /\ logger = init_tracing(environ).logger
    /\ tracing_enabled = init_tracing(environ).tracing_enabled
    /\ SERVER_INSTANCE_ID = InstanceUuid(1)
    /\ phase = "serving"
    /\ now = 0
    /\ uuid_count = 0
    /\ session_spans = << >>
    /\ session_turn_counts = << >>
    /\ session_last_access = << >>
    /\ session_metadata = << >>
    /\ bt_sessions = << >>
    /\ turns = << >>
    /\ last_response = NoResponse

(* ------------------------------------------ BraintrustSessionMiddleware.dispatch *)
SetDicts(d) ==
    /\ session_spans' = d.spans
    /\ session_turn_counts' = d.counts
    /\ session_last_access' = d.access
    /\ session_metadata' = d.meta
    /\ bt_sessions' = d.bt

Alive(t) == turns[t].instance = SERVER_INSTANCE_ID
InFlightPcs == {"calling", "body_pending", "body_streaming"}
InFlight == { t \in DOMAIN turns : Alive(t) /\ turns[t].pc \in InFlightPcs }

\* A request that is not a run request: swept, then handed to call_next.
DispatchOther(path, f) ==
    /\ phase = "serving"
    /\ ~(is_run_path(path) \/ is_sse_path(path))
    /\ SetDicts(cleanup_expired_sessions(Dicts, now, f))
    /\ UNCHANGED <<environ, logger, tracing_enabled, SERVER_INSTANCE_ID, phase,
                   now, uuid_count, turns, last_response>>

\* A run request while tracing is disabled: swept, then handed to call_next.
DispatchUntraced(path, f) ==
    /\ phase = "serving"
    /\ is_run_path(path) \/ is_sse_path(path)
    /\ ~tracing_enabled
    /\ SetDicts(cleanup_expired_sessions(Dicts, now, f))
    /\ last_response' = [path |-> path, set_cookie |-> None]
    /\ UNCHANGED <<environ, logger, tracing_enabled, SERVER_INSTANCE_ID, phase,
                   now, uuid_count, turns>>

\* A traced run request, up to its await of call_next (lines 215-288).
DispatchRun(path, cookies, referer, f) ==
    /\ phase = "serving"
    /\ is_run_path(path) \/ is_sse_path(path)
    /\ tracing_enabled
    /\ Len(turns) < MaxTurns
    /\ Cardinality(InFlight) < MaxInFlight
    /\ LET c == cleanup_expired_sessions(Dicts, now, f)
           is_valid_instance == check_server_instance(cookies, SERVER_INSTANCE_ID)
           info == extract_session_info(referer, ~is_valid_instance,
                                        uuid4(uuid_count + 1))
           session_key == get_session_key(info.app_name, info.user_id, info.session_id)
           metadata == [app_name |-> info.app_name, user_id |-> info.user_id,
                        session_id |-> info.session_id,
                        server_instance_id |-> SERVER_INSTANCE_ID]
           g == get_or_create_session_span(c, session_key, metadata, logger, now,
                                           SERVER_INSTANCE_ID)
           turn_number == Get(g.d.counts, session_key, 0) + 1
           turn == [parent |-> g.ret, key |-> session_key,
                    session_id |-> info.session_id, at |-> now,
                    referer_key |-> referer_key(referer),
                    forced |-> ~is_valid_instance,
                    instance |-> SERVER_INSTANCE_ID, turn_number |-> turn_number,
                    \* session_span.start_span on None raises AttributeError
                    pc |-> IF g.ret = NoSpan THEN "attribute_error" ELSE "calling",
                    output |-> None, end_calls |-> 0, chunks |-> 0,
                    set_cookie |-> None]
       IN /\ SetDicts([g.d EXCEPT !.counts = Put(g.d.counts, session_key, turn_number)])
          /\ turns' = Append(turns, turn)
          /\ uuid_count' = IF info.generated THEN uuid_count + 1 ELSE uuid_count
    /\ UNCHANGED <<environ, logger, tracing_enabled, SERVER_INSTANCE_ID, phase,
                   now, last_response>>

\* turn_span.log(output=...); turn_span.end()
LogEnd(turn, output, pc) ==
    [turn EXCEPT !.output = output, !.end_calls = @ + 1, !.pc = pc]

\* call_next returns a response that is no StreamingResponse (lines 289-334)
CallNextReturnsPlain(t) ==
    /\ t \in DOMAIN turns /\ Alive(t) /\ turns[t].pc = "calling"
    /\ turns' = [turns EXCEPT ![t] =
                    LogEnd([@ EXCEPT !.set_cookie = SERVER_INSTANCE_ID],
                           "completed", "returned")]
    /\ UNCHANGED <<environ, logger, tracing_enabled, SERVER_INSTANCE_ID, phase,
                   now, uuid_count, session_spans, session_turn_counts,
                   session_last_access, session_metadata, bt_sessions, last_response>>

\* call_next returns a StreamingResponse: wrap_streaming_response builds the new
\* response around wrapped_iterator(), which has not run yet (lines 309-313, 343-383)
CallNextReturnsStreamingMutNoCookie(t) ==
    /\ t \in DOMAIN turns /\ Alive(t) /\ turns[t].pc = "calling"
    /\ turns' = [turns EXCEPT ![t].pc = "body_pending"]
    /\ UNCHANGED <<environ, logger, tracing_enabled, SERVER_INSTANCE_ID, phase,
                   now, uuid_count, session_spans, session_turn_counts,
                   session_last_access, session_metadata, bt_sessions, last_response>>
CallNextReturnsStreaming(t) ==
    /\ t \in DOMAIN turns /\ Alive(t) /\ turns[t].pc = "calling"
    /\ turns' = [turns EXCEPT ![t].set_cookie = SERVER_INSTANCE_ID,
                              ![t].pc = "body_pending"]
    /\ UNCHANGED <<environ, logger, tracing_enabled, SERVER_INSTANCE_ID, phase,
                   now, uuid_count, session_spans, session_turn_counts,
                   session_last_access, session_metadata, bt_sessions, last_response>>

\* call_next raises (lines 336-341)
CallNextRaises(t) ==
    /\ t \in DOMAIN turns /\ Alive(t) /\ turns[t].pc = "calling"
    /\ turns' = [turns EXCEPT ![t] = LogEnd(@, "error", "raised")]
    /\ UNCHANGED <<environ, logger, tracing_enabled, SERVER_INSTANCE_ID, phase,
                   now, uuid_count, session_spans, session_turn_counts,
                   session_last_access, session_metadata, bt_sessions, last_response>>

(* ----------------------------------------------------------- wrapped_iterator *)
\* the server asks for the next chunk and the original iterator has one: yield
BodyNext(t) ==
    /\ t \in DOMAIN turns /\ Alive(t)
    /\ turns[t].pc \in {"body_pending", "body_streaming"}
    /\ turns[t].chunks < MaxChunks
    /\ turns' = [turns EXCEPT ![t].chunks = @ + 1, ![t].pc = "body_streaming"]
    /\ UNCHANGED <<environ, logger, tracing_enabled, SERVER_INSTANCE_ID, phase,
                   now, uuid_count, session_spans, session_turn_counts,
                   session_last_access, session_metadata, bt_sessions, last_response>>

\* the generator body leaves its try block and runs finally: the original iterator is
\* exhausted, or raises, when asked for the next chunk (body_done), or the generator
\* is closed while suspended at its yield (body_closed)
BodyEnds(t, how) ==
    /\ t \in DOMAIN turns /\ Alive(t)
    /\ \/ /\ how = "body_done"
          /\ turns[t].pc \in {"body_pending", "body_streaming"}
       \/ /\ how = "body_closed"
          /\ turns[t].pc = "body_streaming"
    /\ turns' = [turns EXCEPT ![t] = LogEnd(@, "streaming", how)]
    /\ UNCHANGED <<environ, logger, tracing_enabled, SERVER_INSTANCE_ID, phase,
                   now, uuid_count, session_spans, session_turn_counts,
                   session_last_access, session_metadata, bt_sessions, last_response>>

\* the response is closed or dropped before its body was ever asked for a chunk: a
\* generator that never started does not run its finally block
BodyDropped(t) ==
    /\ t \in DOMAIN turns /\ Alive(t)
    /\ turns[t].pc = "body_pending"
    /\ turns' = [turns EXCEPT ![t].pc = "body_dropped"]
    /\ UNCHANGED <<environ, logger, tracing_enabled, SERVER_INSTANCE_ID, phase,
                   now, uuid_count, session_spans, session_turn_counts,
                   session_last_access, session_metadata, bt_sessions, last_response>>

(* -------------------------------------------------------------- shutdown_event *)
shutdown_event(d, f) ==
    [spans |-> << >>, counts |-> << >>, access |-> << >>, meta |-> << >>,
     bt |-> [i \in DOMAIN d.bt |->
                IF \E k \in DOMAIN d.spans : d.spans[k] = i
                THEN TryLogEnd(d.bt[i], "server_shutdown",
                               f[CHOOSE k \in DOMAIN d.spans : d.spans[k] = i])
                ELSE d.bt[i]]]

Shutdown(f) ==
    /\ phase = "serving"
    /\ phase' = "stopped"
    /\ SetDicts(shutdown_event(Dicts, f))
    /\ UNCHANGED <<environ, logger, tracing_enabled, SERVER_INSTANCE_ID, now,
                   uuid_count, turns, last_response>>

\* time passes; only a serving process reads the clock
Tick(d) ==
    /\ phase = "serving"
    /\ now + d <= MaxTime
    /\ now' = now + d
    /\ UNCHANGED <<environ, logger, tracing_enabled, SERVER_INSTANCE_ID, phase,
                   uuid_count, session_spans, session_turn_counts,
                   session_last_access, session_metadata, bt_sessions, turns,
                   last_response>>

(* ======================================================================= *)
(* The chat applications: main() of py/app.py and py/langchain/app.py       *)
(* ======================================================================= *)
\* messages one chat session sends
MaxMessages == 2
\* chunks or events the first completion stream delivers
MaxEvents == 3
\* chunks or events the follow-up completion stream delivers
MaxFinalEvents == 1
\* documents the retriever returns
MaxDocs == 1

ChatApps == {"py/app.py", "py/langchain/app.py"}
\* py/app.py talks to OpenAI only; py/langchain/app.py reads AI_PROVIDER
Providers(app) == IF app = "py/app.py" THEN {"openai"} ELSE {"openai", "anthropic"}
Questions == {"What is clause 4?"}

\* bool(x) of an optional string
Truthy(x) == x # None /\ x # ""
\* x or ""
OrEmpty(x) == IF Truthy(x) THEN x ELSE ""

(* ------------------------------------------------------------------ spans *)
\* cl.user_session "session_span": the conversation_session span on_chat_start made
session_span == 1
Trace == [spans |-> spans, log |-> span_events]
SetTrace(T) == spans' = T.spans /\ span_events' = T.log

start_span(T, parent, name, input) ==
    [spans |-> Append(T.spans, [name |-> name, parent |-> parent, input |-> input,
                                output |-> None, end_calls |-> 0]),
     log |-> Append(T.log, [op |-> "start", span |-> Len(T.spans) + 1])]
\* span.log(output=...)
log_output(T, s, output) == [T EXCEPT !.spans[s].output = output]
\* span.end()
end_span(T, s) ==
    [spans |-> [T.spans EXCEPT ![s].end_calls = @ + 1],
     log |-> Append(T.log, [op |-> "end", span |-> s])]

\* the finally blocks an exception passes, innermost first: open is the spans whose
\* try block is being executed, outermost first
finally_blocksMutInnermostOnly(T, open) ==
    IF open = << >> THEN T ELSE end_span(T, open[Len(open)])
RECURSIVE finally_blocks(_, _)
finally_blocks(T, open) ==
    IF open = << >> THEN T
    ELSE finally_blocks(end_span(T, open[Len(open)]), SubSeq(open, 1, Len(open) - 1))

\* the try blocks main() is in at each position
OpenTry ==
    CASE cpc = "retrieving" -> <<span>>
      [] cpc \in {"stream1", "tools", "stream2", "completing"} -> <<span, llm_span>>
      [] cpc = "searching" -> <<span, llm_span, search_span>>
      [] OTHER -> << >>

LlmSpanName ==
    IF chat_app = "py/app.py" THEN "openai_chat_completion"
    ELSE PROVIDER \o "_chat_completion"

(* ------------------------------------------------------------ model streams *)
\* tool_call_delta.index is None
NoIndex == -1
ToolDelta(index, id, name, arguments) ==
    [index |-> index, id |-> id, name |-> name, arguments |-> arguments]
QueryTail == "\"query\": \"tax\"}"
ToolDeltas ==
    { ToolDelta(0, "call_0", "tavily_search", "{"),
      ToolDelta(0, None, None, "}"),
      ToolDelta(0, None, None, QueryTail),
      ToolDelta(1, "call_1", "lookup", "{}"),
      ToolDelta(1, "call_1", "tavily_search", "{}"),
      ToolDelta(NoIndex, None, None, None) }
\* chunk.choices[0].delta of an OpenAI stream
Chunk(content, deltas) == [content |-> content, tool_calls |-> deltas]
OpenAIChunks ==
    { Chunk(c, << >>) : c \in {None, "", "a"} }
    \cup { Chunk(None, <<d>>) : d \in ToolDeltas }
    \cup { Chunk("a", <<ToolDelta(0, "call_0", "tavily_search", "{")>>),
           Chunk(None, <<ToolDelta(0, "call_0", "tavily_search", "{"),
                         ToolDelta(0, None, None, "}")>>) }
OpenAIFinalChunks == { Chunk(c, << >>) : c \in {None, "", "b"} }

\* an event of an Anthropic stream
Event(type, kind, text) == [type |-> type, kind |-> kind, text |-> text]
AnthropicEvents ==
    { Event("content_block_start", "tool_use", None),
      Event("content_block_start", "text", None),
      Event("content_block_delta", "text_delta", "a"),
      Event("content_block_delta", "text_delta", ""),
      Event("content_block_delta", "input_json_delta", "{"),
      Event("content_block_delta", "input_json_delta", "}"),
      Event("content_block_delta", "input_json_delta", QueryTail),
      Event("content_block_stop", None, None),
      Event("message_delta", None, None) }
AnthropicFinalEvents ==
    { Event("content_block_delta", "text_delta", "b"),
      Event("content_block_delta", "text_delta", ""),
      Event("content_block_start", "text", None),
      Event("message_stop", None, None) }

\* one tool call delta of an OpenAI chunk applied to (tool_calls, current_tool_call)
openai_tool_delta(st, d) ==
    IF d.index = NoIndex THEN st
    ELSE IF st.current = << >> \/ d.index # st.current[1].index
         THEN [calls |-> st.calls \o st.current,
               current |-> <<[index |-> d.index, id |-> OrEmpty(d.id),
                              name |-> OrEmpty(d.name),
                              arguments |-> OrEmpty(d.arguments)]>>]
         ELSE IF Truthy(d.arguments)
              THEN [st EXCEPT !.current[1].arguments = @ \o d.arguments]
              ELSE st
RECURSIVE openai_tool_deltas(_, _)
openai_tool_deltas(st, ds) ==
    IF ds = << >> THEN st
    ELSE openai_tool_deltas(openai_tool_delta(st, Head(ds)), Tail(ds))

\* one Anthropic event applied to (tool_calls, current_tool_call)
anthropic_tool_event(st, e, index) ==
    CASE e.type = "content_block_start" /\ e.kind = "tool_use" ->
           [st EXCEPT !.current = <<[index |-> index, id |-> "toolu_" \o ToString(index),
                                     name |-> "tavily_search", arguments |-> ""]>>]
      [] e.type = "content_block_delta" /\ e.kind = "input_json_delta"
           /\ st.current # << >> ->
           [st EXCEPT !.current[1].arguments = @ \o e.text]
      [] e.type = "content_block_stop" ->
           [calls |-> st.calls \o st.current, current |-> << >>]
      [] OTHER -> st

\* the text a chunk or event makes main() append to the answer: << >> for none
openai_content(chunk) == IF Truthy(chunk.content) THEN <<chunk.content>> ELSE << >>
anthropic_content(e) ==
    IF e.type = "content_block_delta" /\ e.kind = "text_delta" THEN <<e.text>> ELSE << >>

\* json.loads on the argument strings the streams can build; any other string raises
JsonObjects == ("{}" :> << >>) @@ (("{" \o QueryTail) :> ("query" :> "tax"))
json_loads_raises(s) == s \notin DOMAIN JsonObjects
json_loads(s) == JsonObjects[s]

search_msg(query) == "\n\n[Searching the web for: " \o query \o "]\n\n"
\* ", ".join of source_0 .. source_<n-1>
RECURSIVE source_names(_)
source_names(n) ==
    IF n = 1 THEN "source_0"
    ELSE source_names(n - 1) \o ", source_" \o ToString(n - 1)
sources_text(n) == "\nSources: " \o source_names(n)

\* msg.stream_token(token)
stream_tokenMutDropsNotice(ui, token) ==
    IF token \in { search_msg(q) : q \in {"", "tax"} } THEN ui ELSE Append(ui, token)
stream_token(ui, token) == Append(ui, token)
RECURSIVE stream_tokens(_, _)
stream_tokens(ui, tokens) ==
    IF tokens = << >> THEN ui
    ELSE stream_tokens(stream_token(ui, Head(tokens)), Tail(tokens))
RECURSIVE Concat(_)
Concat(tokens) == IF tokens = << >> THEN "" ELSE Head(tokens) \o Concat(Tail(tokens))
NonEmpty(tokens) == SelectSeq(tokens, LAMBDA t : t # "")

Message(role, content, calls, tool_call_id) ==
    [role |-> role, content |-> content, tool_calls |-> calls,
     tool_call_id |-> tool_call_id]
\* the chat history as request messages
RECURSIVE history_messages(_)
history_messages(h) ==
    IF h = << >> THEN << >>
    ELSE <<Message(IF Head(h).type = "human" THEN "user" ELSE "assistant",
                   Head(h).content, << >>, None)>> \o history_messages(Tail(h))
turn_number_of(h) == Len(SelectSeq(h, LAMBDA m : m.type = "human")) + 1

(* -------------------------------------------------------------- the states *)
\* the chat session after on_chat_start
ChatStarted ==
    /\ chat_app \in ChatApps
    /\ PROVIDER \in Providers(chat_app)
    /\ cpc = "idle"
    /\ handled = 0
    /\ outcome = None
    /\ question = None
    /\ message_history = << >>
    /\ source_documents = 0
    /\ messages = << >>
    /\ answer = ""
    /\ ui_stream = << >>
    /\ delivered = << >>
    /\ tool_calls = << >>
    /\ current_tool_call = << >>
    /\ tool_i = 0
    /\ n_events = 0
    /\ llm_requests = << >>
    /\ spans = <<[name |-> "conversation_session", parent |-> 0, input |-> None,
                  output |-> None, end_calls |-> 0]>>
    /\ span_events = <<[op |-> "start", span |-> session_span]>>
    /\ span = 0
    /\ llm_span = 0
    /\ search_span = 0

\* no chat session
ChatOff ==
    /\ chat_app = None
    /\ PROVIDER = None
    /\ cpc = "off"
    /\ handled = 0
    /\ outcome = None
    /\ question = None
    /\ message_history = << >>
    /\ source_documents = 0
    /\ messages = << >>
    /\ answer = ""
    /\ ui_stream = << >>
    /\ delivered = << >>
    /\ tool_calls = << >>
    /\ current_tool_call = << >>
    /\ tool_i = 0
    /\ n_events = 0
    /\ llm_requests = << >>
    /\ spans = << >>
    /\ span_events = << >>
    /\ span = 0
    /\ llm_span = 0
    /\ search_span = 0

\* the ADK server process without its tracing key, serving nothing
MwOff == MwInit /\ environ = << >>

(* ------------------------------------------------------------------ main() *)
\* main() up to the await on the retriever
OnMessage(content) ==
    /\ cpc = "idle"
    /\ handled < MaxMessages
    /\ LET T == start_span(Trace, session_span, "conversation_turn",
                           turn_number_of(message_history))
       IN /\ SetTrace(T)
          /\ span' = Len(T.spans)
    /\ question' = content
    /\ handled' = handled + 1
    /\ outcome' = None
    /\ cpc' = "retrieving"
    /\ source_documents' = 0
    /\ messages' = << >>
    /\ answer' = ""
    /\ ui_stream' = << >>
    /\ delivered' = << >>
    /\ tool_calls' = << >>
    /\ current_tool_call' = << >>
    /\ tool_i' = 0
    /\ n_events' = 0
    /\ llm_requests' = << >>
    /\ llm_span' = 0
    /\ search_span' = 0
    /\ UNCHANGED <<chat_app, PROVIDER, message_history>>

\* the retriever returns: history, request messages, the chat-completion span and
\* the first request, with the tool definitions
Retrieved(docs) ==
    /\ cpc = "retrieving"
    /\ source_documents' = docs
    /\ message_history' = Append(message_history, [type |-> "human", content |-> question])
    /\ messages' = <<Message("system", "context", << >>, None)>>
                   \o history_messages(message_history)
                   \o <<Message("user", question, << >>, None)>>
    /\ LET T == start_span(Trace, span, LlmSpanName, None)
       IN /\ SetTrace(T)
          /\ llm_span' = Len(T.spans)
    /\ llm_requests' = Append(llm_requests, [tools |-> TRUE, open_searches |-> 0])
    /\ cpc' = "stream1"
    /\ UNCHANGED <<chat_app, PROVIDER, handled, outcome, question, answer, ui_stream,
                   delivered, tool_calls, current_tool_call, tool_i, n_events, span,
                   search_span>>

\* the answer, the UI message and the turn span after content tokens arrived
Streamed(tokens) ==
    /\ answer' = answer \o Concat(tokens)
    /\ ui_stream' = stream_tokens(ui_stream, tokens)
    /\ delivered' = delivered \o NonEmpty(tokens)
    /\ IF chat_app = "py/app.py" /\ tokens # << >>
       THEN SetTrace(log_output(Trace, span, answer'))
       ELSE UNCHANGED <<spans, span_events>>

\* one chunk (OpenAI) or event (Anthropic) of the first stream
StreamChunk1(chunk) ==
    /\ cpc = "stream1"
    /\ n_events < MaxEvents
    /\ n_events' = n_events + 1
    /\ LET st == [calls |-> tool_calls, current |-> current_tool_call]
           st2 == IF PROVIDER = "openai" THEN openai_tool_deltas(st, chunk.tool_calls)
                  ELSE anthropic_tool_event(st, chunk, n_events)
       IN /\ tool_calls' = st2.calls
          /\ current_tool_call' = st2.current
    /\ Streamed(IF PROVIDER = "openai" THEN openai_content(chunk)
                ELSE anthropic_content(chunk))
    /\ UNCHANGED <<chat_app, PROVIDER, cpc, handled, outcome, question,
                   message_history, source_documents, messages, tool_i, llm_requests,
                   span, llm_span, search_span>>

\* the first stream is exhausted
StreamEnd1 ==
    /\ cpc = "stream1"
    /\ tool_calls' = tool_calls \o current_tool_call
    /\ tool_i' = 1
    /\ cpc' = IF tool_calls' # << >> THEN "tools" ELSE "completing"
    /\ UNCHANGED <<chat_app, PROVIDER, handled, outcome, question, message_history,
                   source_documents, messages, answer, ui_stream, delivered,
                   current_tool_call, n_events, llm_requests, spans, span_events,
                   span, llm_span, search_span>>

\* a tool call that is not tavily_search is passed over
ToolSkip ==
    /\ cpc = "tools"
    /\ tool_i <= Len(tool_calls)
    /\ tool_calls[tool_i].name # "tavily_search"
    /\ tool_i' = tool_i + 1
    /\ UNCHANGED <<chat_app, PROVIDER, cpc, handled, outcome, question,
                   message_history, source_documents, messages, answer, ui_stream,
                   delivered, tool_calls, current_tool_call, n_events, llm_requests,
                   spans, span_events, span, llm_span, search_span>>

\* main() leaves with an exception from where it stands
Raised ==
    /\ SetTrace(finally_blocks(Trace, OpenTry))
    /\ cpc' = "idle"
    /\ outcome' = "raised"
    /\ UNCHANGED <<chat_app, PROVIDER, handled, question, message_history,
                   source_documents, messages, answer, ui_stream, delivered,
                   tool_calls, current_tool_call, tool_i, n_events, llm_requests,
                   span, llm_span, search_span>>

\* json.loads rejects the arguments of a tavily_search call
ToolArgsInvalid ==
    /\ cpc = "tools"
    /\ tool_i <= Len(tool_calls)
    /\ tool_calls[tool_i].name = "tavily_search"
    /\ json_loads_raises(tool_calls[tool_i].arguments)
    /\ Raised

\* the query of the search being run
query == Get(json_loads(tool_calls[tool_i].arguments), "query", "")

\* a tavily_search call up to the await on the search
SearchStart ==
    /\ cpc = "tools"
    /\ tool_i <= Len(tool_calls)
    /\ tool_calls[tool_i].name = "tavily_search"
    /\ ~json_loads_raises(tool_calls[tool_i].arguments)
    /\ LET T == start_span(Trace, llm_span, "tavily_search", query)
       IN /\ SetTrace(T)
          /\ search_span' = Len(T.spans)
    /\ cpc' = "searching"
    /\ UNCHANGED <<chat_app, PROVIDER, handled, outcome, question, message_history,
                   source_documents, messages, answer, ui_stream, delivered,
                   tool_calls, current_tool_call, tool_i, n_events, llm_requests,
                   span, llm_span>>

\* the search returns: results logged, the two messages, the notice, the span ended
SearchReturns ==
    /\ cpc = "searching"
    /\ LET tool_call == tool_calls[tool_i]
       IN messages' = messages
              \o <<Message("assistant", None,
                           <<[id |-> tool_call.id, name |-> "tavily_search",
                              arguments |-> tool_call.arguments]>>, None),
                   Message("tool", "results", << >>, tool_call.id)>>
    /\ answer' = answer \o search_msg(query)
    /\ ui_stream' = stream_token(ui_stream, search_msg(query))
    /\ delivered' = Append(delivered, search_msg(query))
    /\ SetTrace(end_span(log_output(Trace, search_span, "results"), search_span))
    /\ tool_i' = tool_i + 1
    /\ cpc' = "tools"
    /\ UNCHANGED <<chat_app, PROVIDER, handled, outcome, question, message_history,
                   source_documents, tool_calls, current_tool_call, n_events,
                   llm_requests, span, llm_span, search_span>>

\* spans of this main() that are started and not ended
OpenSearches ==
    Cardinality({ s \in DOMAIN spans : /\ spans[s].name = "tavily_search"
                                       /\ spans[s].end_calls = 0 })

\* the follow-up request sent with the tool definitions of the first
FinalCallMutWithTools ==
    /\ cpc = "tools"
    /\ tool_i > Len(tool_calls)
    /\ llm_requests' = Append(llm_requests,
                              [tools |-> TRUE, open_searches |-> OpenSearches])
    /\ n_events' = 0
    /\ cpc' = "stream2"
    /\ UNCHANGED <<chat_app, PROVIDER, handled, outcome, question, message_history,
                   source_documents, messages, answer, ui_stream, delivered,
                   tool_calls, current_tool_call, tool_i, spans, span_events, span,
                   llm_span, search_span>>
\* after the loop over tool_calls: the follow-up request, without tool definitions
FinalCall ==
    /\ cpc = "tools"
    /\ tool_i > Len(tool_calls)
    /\ llm_requests' = Append(llm_requests,
                              [tools |-> FALSE, open_searches |-> OpenSearches])
    /\ n_events' = 0
    /\ cpc' = "stream2"
    /\ UNCHANGED <<chat_app, PROVIDER, handled, outcome, question, message_history,
                   source_documents, messages, answer, ui_stream, delivered,
                   tool_calls, current_tool_call, tool_i, spans, span_events, span,
                   llm_span, search_span>>

\* one chunk or event of the follow-up stream
StreamChunk2(chunk) ==
    /\ cpc = "stream2"
    /\ n_events < MaxFinalEvents
    /\ n_events' = n_events + 1
    /\ Streamed(IF PROVIDER = "openai" THEN openai_content(chunk)
                ELSE anthropic_content(chunk))
    /\ UNCHANGED <<chat_app, PROVIDER, cpc, handled, outcome, question,
                   message_history, source_documents, messages, tool_calls,
                   current_tool_call, tool_i, llm_requests, span, llm_span,
                   search_span>>

\* the follow-up stream is exhausted
StreamEnd2 ==
    /\ cpc = "stream2"
    /\ cpc' = "completing"
    /\ UNCHANGED <<chat_app, PROVIDER, handled, outcome, question, message_history,
                   source_documents, messages, answer, ui_stream, delivered,
                   tool_calls, current_tool_call, tool_i, n_events, llm_requests,
                   spans, span_events, span, llm_span, search_span>>

\* the completion is logged, the chat-completion span ended, the answer stored in
\* the history, the turn span ended
Complete ==
    /\ cpc = "completing"
    /\ message_history' = Append(message_history, [type |-> "ai", content |-> answer])
    /\ LET T1 == end_span(log_output(Trace, llm_span, answer), llm_span)
           T2 == IF chat_app = "py/langchain/app.py"
                 THEN log_output(T1, span, answer) ELSE T1
       IN SetTrace(end_span(T2, span))
    /\ cpc' = "sending"
    /\ UNCHANGED <<chat_app, PROVIDER, handled, outcome, question, source_documents,
                   messages, answer, ui_stream, delivered, tool_calls,
                   current_tool_call, tool_i, n_events, llm_requests, span, llm_span,
                   search_span>>

\* the sources line and msg.send()
Send ==
    /\ cpc = "sending"
    /\ IF source_documents > 0
       THEN /\ answer' = answer \o sources_text(source_documents)
            /\ ui_stream' = stream_token(ui_stream, sources_text(source_documents))
       ELSE UNCHANGED <<answer, ui_stream>>
    /\ cpc' = "idle"
    /\ outcome' = "sent"
    /\ UNCHANGED <<chat_app, PROVIDER, handled, question, message_history,
                   source_documents, messages, delivered, tool_calls,
                   current_tool_call, tool_i, n_events, llm_requests, spans,
                   span_events, span, llm_span, search_span>>

\* an awaited call raises: the retriever, a model stream, the search
AwaitRaises ==
    /\ cpc \in {"retrieving", "stream1", "searching", "stream2"}
    /\ Raised


(* ======================================================================= *)
(* patching_traces: customer_service_chatbot.py and score_traces.py          *)
(* ======================================================================= *)
\* conversations of the CONVERSATIONS list that are modelled
MaxConversations == 2
\* score_traces.py processes that may run at the same time
MaxScorers == 2
\* runs of main() one score_traces.py process makes
MaxScorerRuns == 1

\* limit: of the BTQL query
QUERY_LIMIT == 500
SCORER_MODEL == "claude-haiku-4-5-20251001"
SCORER_VERSION == "v1"
MODEL == "claude-haiku-4-5-20251001"

Conversation(n) ==
    [customer_id |-> "cust_00" \o ToString(n), ticket_id |-> "ticket_10" \o ToString(n),
     topic |-> IF n = 2 THEN "shipping" ELSE "billing", channel |-> "chat",
     message |-> "message " \o ToString(n)]
CONVERSATIONS == [n \in 1..MaxConversations |-> Conversation(n)]

Scorers == 1..MaxScorers
\* unscored conversation spans earlier chatbot runs may have left in the project
Backlogs == {0, QUERY_LIMIT - 1, QUERY_LIMIT}
\* result.content of the chatbot's LLM call
Contents == {"", "We are sorry."}

(* -------------------------------------------------- customer_service_chatbot *)
NewSpan(name) ==
    [name |-> name, input |-> << >>, output |-> None, metadata |-> << >>,
     tags |-> {}, scores |-> << >>, logged |-> FALSE, ended |-> 0]

\* main() up to its for loop
BotStart ==
    /\ bot_pc = "idle"
    /\ bot_pc' = "loop"
    /\ bot_k' = 1
    /\ span_ids' = << >>
    /\ UNCHANGED <<bot_events, project_logs, backlog, backlog_scored, scorer, updates>>

\* handle_conversation up to the await on the LLM: the span is started
ConversationStart ==
    /\ bot_pc = "loop"
    /\ bot_k <= Len(CONVERSATIONS)
    /\ project_logs' = Append(project_logs,
                              NewSpan("conversation:" \o CONVERSATIONS[bot_k].ticket_id))
    /\ bot_events' = Append(bot_events, [op |-> "start", k |-> bot_k])
    /\ bot_pc' = "awaiting"
    /\ UNCHANGED <<bot_k, span_ids, backlog, backlog_scored, scorer, updates>>

\* the span of the conversation being handled
bot_span == Len(project_logs)

\* the LLM answers: span.log, the end of the with block, the return to the loop
LlmReturns(content) ==
    /\ bot_pc = "awaiting"
    /\ LET convo == CONVERSATIONS[bot_k]
       IN project_logs' =
             [project_logs EXCEPT ![bot_span] =
                 [@ EXCEPT !.input = ("message" :> convo.message),
                           !.output = content,
                           !.metadata = [customer_id |-> convo.customer_id,
                                         ticket_id |-> convo.ticket_id,
                                         topic |-> convo.topic,
                                         channel |-> convo.channel,
                                         model |-> MODEL],
                           !.tags = {"customer_service", "unscored"},
                           !.logged = TRUE,
                           !.ended = @ + 1]]
    /\ bot_events' = Append(bot_events, [op |-> "end", k |-> bot_k])
    /\ span_ids' = Append(span_ids, bot_span)
    /\ bot_k' = bot_k + 1
    /\ bot_pc' = "loop"
    /\ UNCHANGED <<backlog, backlog_scored, scorer, updates>>

\* the LLM call raises: the with block ends the span, main() ends with the exception
LlmRaises ==
    /\ bot_pc = "awaiting"
    /\ project_logs' = [project_logs EXCEPT ![bot_span].ended = @ + 1]
    /\ bot_events' = Append(bot_events, [op |-> "end", k |-> bot_k])
    /\ bot_pc' = "failed"
    /\ UNCHANGED <<bot_k, span_ids, backlog, backlog_scored, scorer, updates>>

\* flush() before the loop has gone through the list
BotFlushMutEarly ==
    /\ bot_pc = "loop"
    /\ bot_events' = Append(bot_events, [op |-> "flush", k |-> 0])
    /\ bot_pc' = "flushed"
    /\ UNCHANGED <<bot_k, span_ids, project_logs, backlog, backlog_scored, scorer,
                   updates>>
\* flush() after the loop
BotFlush ==
    /\ bot_pc = "loop"
    /\ bot_k > Len(CONVERSATIONS)
    /\ bot_events' = Append(bot_events, [op |-> "flush", k |-> 0])
    /\ bot_pc' = "flushed"
    /\ UNCHANGED <<bot_k, span_ids, project_logs, backlog, backlog_scored, scorer,
                   updates>>

\* print(f"All {len(span_ids)} conversations logged and flushed.")
BotPrint ==
    /\ bot_pc = "flushed"
    /\ bot_events' = Append(bot_events, [op |-> "print", k |-> Len(span_ids)])
    /\ bot_pc' = "done"
    /\ UNCHANGED <<bot_k, span_ids, project_logs, backlog, backlog_scored, scorer,
                   updates>>

(* ------------------------------------------------------------ score_traces *)
\* filter: tags includes 'unscored' and tags includes 'customer_service'
Matches(s) == "unscored" \in s.tags /\ "customer_service" \in s.tags
MatchingSpans == { id \in DOMAIN project_logs : Matches(project_logs[id]) }
\* r.get("input") and r.get("output")
HasInputOutput(s) == s.input # << >> /\ Truthy(s.output)

Min(a, b) == IF a < b THEN a ELSE b
Max(a, b) == IF a > b THEN a ELSE b
RECURSIVE SortedSeq(_)
SortedSeq(S) ==
    IF S = {} THEN << >>
    ELSE LET m == CHOOSE x \in S : \A y \in S : x <= y
         IN <<m>> \o SortedSeq(S \ {m})

\* the answers BTQL may give: the logged spans and the number of older spans it
\* returns, QUERY_LIMIT rows at most
BtqlResults ==
    LET n == Min(Cardinality(MatchingSpans) + backlog, QUERY_LIMIT)
    IN { [logged |-> R, older |-> n - Cardinality(R)] :
            R \in { X \in SUBSET MatchingSpans :
                       /\ Cardinality(X) <= n
                       /\ n - Cardinality(X) <= backlog } }

\* fetch_unscored_spans: the rows left after the client-side filter
fetch_unscored_spans(result) ==
    [rows |-> SortedSeq({ id \in result.logged : HasInputOutput(project_logs[id]) }),
     older |-> result.older]

\* the replies of the scoring model: the text after the prefilled "{"
Reply(valid, score) == [valid |-> valid, score |-> score]
ModelReplies == { Reply(FALSE, 0) } \cup { Reply(TRUE, n) : n \in {-1, 0, 10, 11} }

\* nps_score / 10 as a fraction
Div10(n) == [num |-> n, den |-> 10]

\* the event update_span_with_nps posts, merged into the span (_is_merge)
update_span_with_npsMutKeepsTags(logs, span_id, nps_score, rationale) ==
    [logs EXCEPT ![span_id] =
        [@ EXCEPT !.scores = ("nps" :> Div10(nps_score)) @@ @,
                  !.tags = @ \cup {"scored"},
                  !.metadata = [nps_score |-> nps_score, nps_rationale |-> rationale,
                                scorer_model |-> SCORER_MODEL,
                                scorer_version |-> SCORER_VERSION] @@ @]]
update_span_with_nps(logs, span_id, nps_score, rationale) ==
    [logs EXCEPT ![span_id] =
        [@ EXCEPT !.scores = ("nps" :> Div10(nps_score)) @@ @,
                  !.tags = {"customer_service", "scored"},
                  !.metadata = [nps_score |-> nps_score, nps_rationale |-> rationale,
                                scorer_model |-> SCORER_MODEL,
                                scorer_version |-> SCORER_VERSION] @@ @]]

ScorerIdle ==
    [pc |-> "idle", runs |-> 0, rows |-> << >>, i |-> 0, older |-> 0,
     older_done |-> FALSE, matched |-> {}, matched_older |-> 0]

\* main() up to the loop: get_project_id, the sleep, fetch_unscored_spans
Fetch(p, result) ==
    /\ scorer[p].pc \in {"idle", "done", "failed"}
    /\ scorer[p].runs < MaxScorerRuns
    /\ LET unscored == fetch_unscored_spans(result)
       IN scorer' = [scorer EXCEPT ![p] =
             [pc |-> IF unscored.rows = << >> /\ unscored.older = 0
                     THEN "done" ELSE "scoring",
              runs |-> @.runs + 1, rows |-> unscored.rows, i |-> 1,
              older |-> unscored.older, older_done |-> FALSE,
              matched |-> { id \in MatchingSpans : HasInputOutput(project_logs[id]) },
              matched_older |-> backlog]]
    /\ UNCHANGED <<bot_pc, bot_k, span_ids, bot_events, project_logs, backlog,
                   backlog_scored, updates>>

\* one pass of the loop over a logged span: score_conversation, update_span_with_nps
ScoreRow(p, reply) ==
    /\ scorer[p].pc = "scoring"
    /\ scorer[p].i <= Len(scorer[p].rows)
    /\ reply.valid
    /\ LET span_id == scorer[p].rows[scorer[p].i]
           nps_score == reply.score
       IN /\ project_logs' = update_span_with_nps(project_logs, span_id, nps_score,
                                                  "rationale")
          /\ updates' = Append(updates, [span |-> span_id, scorer |-> p,
                                         run |-> scorer[p].runs])
    /\ scorer' = [scorer EXCEPT ![p].i = @ + 1]
    /\ UNCHANGED <<bot_pc, bot_k, span_ids, bot_events, backlog, backlog_scored>>

\* score_conversation raises on a reply that is not JSON: main() ends there
ScoreRaises(p, reply) ==
    /\ scorer[p].pc = "scoring"
    /\ scorer[p].i <= Len(scorer[p].rows)
    /\ ~reply.valid
    /\ scorer' = [scorer EXCEPT ![p].pc = "failed"]
    /\ UNCHANGED <<bot_pc, bot_k, span_ids, bot_events, project_logs, backlog,
                   backlog_scored, updates>>

\* the passes of the loop over the older spans of the result; fresh of them were
\* still unscored
ScoreOlder(p, fresh) ==
    /\ scorer[p].pc = "scoring"
    /\ scorer[p].i > Len(scorer[p].rows)
    /\ scorer[p].older > 0
    /\ ~scorer[p].older_done
    /\ backlog' = backlog - fresh
    /\ backlog_scored' = backlog_scored + fresh
    /\ scorer' = [scorer EXCEPT ![p].older_done = TRUE]
    /\ UNCHANGED <<bot_pc, bot_k, span_ids, bot_events, project_logs, updates>>
\* how many of the older rows of p may still be unscored: all that can be, or all
\* but those another run has scored meanwhile
FreshOlder(p) ==
    { Min(scorer[p].older, backlog), Max(0, scorer[p].older - backlog_scored) }

\* the loop is through: the summary is printed
ScorerDone(p) ==
    /\ scorer[p].pc = "scoring"
    /\ scorer[p].i > Len(scorer[p].rows)
    /\ scorer[p].older = 0 \/ scorer[p].older_done
    /\ scorer' = [scorer EXCEPT ![p].pc = "done"]
    /\ UNCHANGED <<bot_pc, bot_k, span_ids, bot_events, project_logs, backlog,
                   backlog_scored, updates>>

(* -------------------------------------------------------------- the states *)
PatchStarted ==
    /\ bot_pc = "idle"
    /\ bot_k = 0
    /\ span_ids = << >>
    /\ bot_events = << >>
    /\ project_logs = << >>
    /\ backlog \in Backlogs
    /\ backlog_scored = 0
    /\ scorer = [p \in Scorers |-> ScorerIdle]
    /\ updates = << >>

\* neither script runs
PatchOff ==
    /\ bot_pc = "off"
    /\ bot_k = 0
    /\ span_ids = << >>
    /\ bot_events = << >>
    /\ project_logs = << >>
    /\ backlog = 0
    /\ backlog_scored = 0
    /\ scorer = << >>
    /\ updates = << >>


(* ======================================================================= *)
(* remote_chatbot_eval.py: task_wrapper                                     *)
(* ======================================================================= *)
\* provider names are sequences of characters, so that lower() is computed
UpperCase == <<"A", "B", "C", "D", "E", "F", "G", "H", "I", "J", "K", "L", "M",
               "N", "O", "P", "Q", "R", "S", "T", "U", "V", "W", "X", "Y", "Z">>
LowerCase == <<"a", "b", "c", "d", "e", "f", "g", "h", "i", "j", "k", "l", "m",
               "n", "o", "p", "q", "r", "s", "t", "u", "v", "w", "x", "y", "z">>
lower_char(c) ==
    IF \E i \in DOMAIN UpperCase : UpperCase[i] = c
    THEN LowerCase[CHOOSE i \in DOMAIN UpperCase : UpperCase[i] = c]
    ELSE c
\* str.lower()
lower(s) == [i \in DOMAIN s |-> lower_char(s[i])]

OPENAI == <<"o", "p", "e", "n", "a", "i">>
ANTHROPIC == <<"a", "n", "t", "h", "r", "o", "p", "i", "c">>
MISTRAL == <<"m", "i", "s", "t", "r", "a", "l">>
ProviderNames ==
    { OPENAI, ANTHROPIC, MISTRAL,
      <<"O", "p", "e", "n", "A", "I">>,
      <<"A", "N", "T", "H", "R", "O", "P", "I", "C">>,
      <<"M", "i", "s", "t", "r", "a", "l">>,
      <<"a", "z", "u", "r", "e">>,
      <<"o", "p", "e", "n", "a", "i", " ">>,
      << >> }
ModelNames == {"", "my-model"}

\* os.environ: AI_PROVIDER and AI_MODEL set or not
ChatbotEvalEnvirons ==
    { p @@ m : p \in { << >> } \cup { ("AI_PROVIDER" :> n) : n \in ProviderNames },
               m \in { << >>, ("AI_MODEL" :> "env-model") } }
\* hooks: without a parameters attribute, or with the parameters the eval was given
ChatbotEvalHooks ==
    { << >> } \cup
    { ("parameters" :> (p @@ m)) :
         p \in { << >> } \cup { ("provider" :> n) : n \in ProviderNames },
         m \in { << >> } \cup { ("model" :> n) : n \in ModelNames } }

get_model_default(provider) ==
    CASE lower(provider) = OPENAI -> "gpt-4o-mini"
      [] lower(provider) = ANTHROPIC -> "claude-sonnet-4-5-20250929"
      [] lower(provider) = MISTRAL -> "mistral-small-latest"
      [] OTHER -> "gpt-4o-mini"

\* task_wrapper up to the call of the provider function: the function it calls and
\* the model, or the exception it raises
task_wrapperMutNoLower(environ_, hooks) ==
    LET params == Get(hooks, "parameters", << >>)
        provider0 == Get(params, "provider", OPENAI)
        model0 == Get(params, "model", "")
        provider == Get(environ_, "AI_PROVIDER", provider0)
        model == IF model0 = ""
                 THEN Get(environ_, "AI_MODEL", get_model_default(provider))
                 ELSE model0
    IN CASE provider = ANTHROPIC -> [call |-> "call_anthropic", model |-> model]
         [] provider = OPENAI -> [call |-> "call_openai", model |-> model]
         [] provider = MISTRAL -> [call |-> "call_mistral", model |-> model]
         [] OTHER -> [call |-> None, model |-> model]
task_wrapper(environ_, hooks) ==
    LET params == Get(hooks, "parameters", << >>)
        provider0 == Get(params, "provider", OPENAI)
        model0 == Get(params, "model", "")
        provider == lower(Get(environ_, "AI_PROVIDER", provider0))
        model == IF model0 = ""
                 THEN Get(environ_, "AI_MODEL", get_model_default(provider))
                 ELSE model0
    IN CASE provider = ANTHROPIC -> [call |-> "call_anthropic", model |-> model]
         [] provider = OPENAI -> [call |-> "call_openai", model |-> model]
         [] provider = MISTRAL -> [call |-> "call_mistral", model |-> model]
         [] OTHER -> [call |-> None, model |-> model]

ChatbotEvalStarted ==
    /\ ce_environ \in ChatbotEvalEnvirons
    /\ ce_hooks \in ChatbotEvalHooks
    /\ ce_pc = "ready"
    /\ ce_calls = << >>
    /\ ce_result = None
ChatbotEvalOff ==
    /\ ce_environ = << >>
    /\ ce_hooks = << >>
    /\ ce_pc = "off"
    /\ ce_calls = << >>
    /\ ce_result = None

\* task_wrapper reaches the call of a provider function
TaskCallsProvider ==
    /\ ce_pc = "ready"
    /\ task_wrapper(ce_environ, ce_hooks).call # None
    /\ ce_calls' = Append(ce_calls, task_wrapper(ce_environ, ce_hooks))
    /\ ce_pc' = "calling"
    /\ UNCHANGED <<ce_environ, ce_hooks, ce_result>>

\* task_wrapper raises ValueError("Unsupported provider: ...")
TaskRejectsProvider ==
    /\ ce_pc = "ready"
    /\ task_wrapper(ce_environ, ce_hooks).call = None
    /\ ce_pc' = "raised"
    /\ ce_result' = "ValueError"
    /\ UNCHANGED <<ce_environ, ce_hooks, ce_calls>>

\* the provider function returns its answer, which task_wrapper returns
ProviderReturns ==
    /\ ce_pc = "calling"
    /\ ce_pc' = "returned"
    /\ ce_result' = "answer"
    /\ UNCHANGED <<ce_environ, ce_hooks, ce_calls>>

\* the provider function raises
ProviderRaises ==
    /\ ce_pc = "calling"
    /\ ce_pc' = "raised"
    /\ ce_result' = "APIError"
    /\ UNCHANGED <<ce_environ, ce_hooks, ce_calls>>

(* ======================================================================= *)
(* ruby/evals/remote_evals/remote_agent_eval.py: task_wrapper               *)
(* ======================================================================= *)
\* a path is the sequence of its pieces; x in cwd is: x is a run of pieces of cwd
Contains(s, x) ==
    \E i \in 0..(Len(s) - Len(x)) : SubSeq(s, i + 1, i + Len(x)) = x
REMOTE_EVALS_DIR == <<"ruby", "/", "evals", "/", "remote_evals">>
Cwds ==
    { <<"/", "repo", "/">> \o REMOTE_EVALS_DIR,
      <<"/", "repo", "/">> \o REMOTE_EVALS_DIR \o <<"/", "tmp">>,
      <<"/", "my">> \o REMOTE_EVALS_DIR \o <<"_old">>,
      <<"/", "repo", "/", "ruby", "/", "evals">>,
      <<"/", "repo", "/", "ruby", "/", "remote_evals">>,
      <<"/">> }

AgentEvalHooks ==
    { << >> } \cup
    { ("parameters" :> m) : m \in { << >>, ("model" :> None), ("model" :> "gpt-4o") } }

\* json.loads of what the Ruby script may print: the value, or nothing for text
\* that is not JSON
Json(kind, value) == [kind |-> kind, value |-> value]
Stdouts ==
    ("" :> << >>)
    @@ ("agent.rb: error" :> << >>)
    @@ ("{\"result\": \"sunny\"}" :> <<Json("dict", ("result" :> "sunny"))>>)
    @@ ("{\"result\": null}" :> <<Json("dict", ("result" :> None))>>)
    @@ ("{\"error\": \"boom\"}" :> <<Json("dict", ("error" :> "boom"))>>)
    @@ ("{}" :> <<Json("dict", << >>)>>)
    @@ ("[\"result\"]" :> <<Json("list", <<"result">>)>>)
    @@ ("\"result\"" :> <<Json("str", "result")>>)
    @@ ("42" :> <<Json("int", 42)>>)
ReturnCodes == {0, 1, -9}

\* 'result' in output_data: TRUE, FALSE, or "TypeError"
result_in(data) ==
    CASE data.kind = "dict" -> "result" \in DOMAIN data.value
      [] data.kind = "list" -> \E i \in DOMAIN data.value : data.value[i] = "result"
      [] data.kind = "str" -> data.value = "result"
      [] OTHER -> "TypeError"

NoResult == [how |-> "pending", value |-> None]
Returned(value) == [how |-> "returned", value |-> value]
RaisedError(error) == [how |-> "raised", value |-> error]

\* task_wrapper after subprocess.run has returned
after_runMutJsonFirst(returncode, stdout) ==
    IF Stdouts[stdout] = << >> THEN RaisedError("ValueError")
    ELSE IF returncode # 0 THEN RaisedError("RuntimeError")
    ELSE LET output_data == Stdouts[stdout][1]
         IN IF output_data.kind # "dict" THEN RaisedError("TypeError")
            ELSE IF "result" \notin DOMAIN output_data.value
                 THEN RaisedError("KeyError")
                 ELSE Returned(output_data.value["result"])
after_run(returncode, stdout) ==
    IF returncode # 0 THEN RaisedError("RuntimeError")
    ELSE IF Stdouts[stdout] = << >> THEN RaisedError("ValueError")
    ELSE LET output_data == Stdouts[stdout][1]
         IN IF output_data.kind \notin {"dict", "list", "str"}
            THEN RaisedError("TypeError")
            ELSE IF ~result_in(output_data)
                 THEN IF output_data.kind = "dict" THEN RaisedError("KeyError")
                      ELSE RaisedError("AttributeError")
                 ELSE IF output_data.kind = "dict"
                      THEN Returned(output_data.value["result"])
                      ELSE RaisedError("TypeError")

\* model = params.get("model").model if "model" in params and params.get("model")
\* else "gpt-4o-mini"
agent_model(hooks) ==
    LET params == Get(hooks, "parameters", << >>)
    IN IF "model" \in DOMAIN params /\ params["model"] # None
       THEN params["model"] ELSE "gpt-4o-mini"

AgentEvalStarted ==
    /\ ae_cwd \in Cwds
    /\ ae_hooks \in AgentEvalHooks
    /\ ae_pc = "ready"
    /\ ae_runs = << >>
    /\ ae_process = << >>
    /\ ae_result = NoResult
AgentEvalOff ==
    /\ ae_cwd = << >>
    /\ ae_hooks = << >>
    /\ ae_pc = "off"
    /\ ae_runs = << >>
    /\ ae_process = << >>
    /\ ae_result = NoResult

\* sys.exit: the working directory is not the remote_evals directory
AgentTaskExits ==
    /\ ae_pc = "ready"
    /\ ~Contains(ae_cwd, REMOTE_EVALS_DIR)
    /\ ae_pc' = "exited"
    /\ ae_result' = RaisedError("SystemExit")
    /\ UNCHANGED <<ae_cwd, ae_hooks, ae_runs, ae_process>>

\* subprocess.run is called
AgentTaskRuns(location) ==
    /\ ae_pc = "ready"
    /\ Contains(ae_cwd, REMOTE_EVALS_DIR)
    /\ ae_runs' = Append(ae_runs, <<"ruby", "agent.rb", agent_model(ae_hooks), location>>)
    /\ ae_pc' = "running"
    /\ UNCHANGED <<ae_cwd, ae_hooks, ae_process, ae_result>>

\* the Ruby process has ended: the checks of its return code and output
ProcessEnds(returncode, stdout) ==
    /\ ae_pc = "running"
    /\ ae_process' = <<[returncode |-> returncode, stdout |-> stdout]>>
    /\ ae_result' = after_run(returncode, stdout)
    /\ ae_pc' = ae_result'.how
    /\ UNCHANGED <<ae_cwd, ae_hooks, ae_runs>>

\* subprocess.run itself raises: there is no ruby to execute
RunRaises ==
    /\ ae_pc = "running"
    /\ ae_result' = RaisedError("FileNotFoundError")
    /\ ae_pc' = "raised"
    /\ UNCHANGED <<ae_cwd, ae_hooks, ae_runs, ae_process>>


(* ------------------------------------------------------------ specifications *)
MwNext ==
    \/ \E path \in Paths, f \in SweepFaults(Dicts, now) : DispatchOther(path, f) /\ UNCHANGED notMwVars
    \/ \E path \in Paths, f \in SweepFaults(Dicts, now) : DispatchUntraced(path, f) /\ UNCHANGED notMwVars
    \/ \E path \in Paths, cookies \in CookieJars, referer \in Referers,
          f \in SweepFaults(Dicts, now) : DispatchRun(path, cookies, referer, f) /\ UNCHANGED notMwVars
    \/ \E t \in DOMAIN turns : CallNextReturnsPlain(t) /\ UNCHANGED notMwVars
    \/ \E t \in DOMAIN turns : CallNextReturnsStreaming(t) /\ UNCHANGED notMwVars
    \/ \E t \in DOMAIN turns : CallNextRaises(t) /\ UNCHANGED notMwVars
    \/ \E t \in DOMAIN turns : BodyNext(t) /\ UNCHANGED notMwVars
    \/ \E t \in DOMAIN turns, how \in {"body_done", "body_closed"} :
          BodyEnds(t, how) /\ UNCHANGED notMwVars
    \/ \E t \in DOMAIN turns : BodyDropped(t) /\ UNCHANGED notMwVars
    \/ \E f \in [DOMAIN session_spans -> EndOutcomes] : Shutdown(f) /\ UNCHANGED notMwVars
    \/ \E d \in TickSteps : Tick(d) /\ UNCHANGED notMwVars

Init == MwInit /\ ChatOff /\ PatchOff /\ ChatbotEvalOff /\ AgentEvalOff
Next == MwNext
Spec == Init /\ [][Next]_vars

ChatNext ==
    \/ \E content \in Questions : OnMessage(content) /\ UNCHANGED notChatVars
    \/ \E docs \in 0..MaxDocs : Retrieved(docs) /\ UNCHANGED notChatVars
    \/ \E chunk \in (IF PROVIDER = "openai" THEN OpenAIChunks ELSE AnthropicEvents) :
          StreamChunk1(chunk) /\ UNCHANGED notChatVars
    \/ StreamEnd1 /\ UNCHANGED notChatVars
    \/ ToolSkip /\ UNCHANGED notChatVars
    \/ ToolArgsInvalid /\ UNCHANGED notChatVars
    \/ SearchStart /\ UNCHANGED notChatVars
    \/ SearchReturns /\ UNCHANGED notChatVars
    \/ FinalCall /\ UNCHANGED notChatVars
    \/ \E chunk \in (IF PROVIDER = "openai" THEN OpenAIFinalChunks
                     ELSE AnthropicFinalEvents) :
          StreamChunk2(chunk) /\ UNCHANGED notChatVars
    \/ StreamEnd2 /\ UNCHANGED notChatVars
    \/ Complete /\ UNCHANGED notChatVars
    \/ Send /\ UNCHANGED notChatVars
    \/ AwaitRaises /\ UNCHANGED notChatVars

ChatInit == MwOff /\ ChatStarted /\ PatchOff /\ ChatbotEvalOff /\ AgentEvalOff
ChatSpec == ChatInit /\ [][ChatNext]_vars

PatchNext ==
    \/ BotStart /\ UNCHANGED notPatchVars
    \/ ConversationStart /\ UNCHANGED notPatchVars
    \/ \E content \in Contents : LlmReturns(content) /\ UNCHANGED notPatchVars
    \/ LlmRaises /\ UNCHANGED notPatchVars
    \/ BotFlush /\ UNCHANGED notPatchVars
    \/ BotPrint /\ UNCHANGED notPatchVars
    \/ \E p \in Scorers, result \in BtqlResults : Fetch(p, result) /\ UNCHANGED notPatchVars
    \/ \E p \in Scorers, reply \in ModelReplies : ScoreRow(p, reply) /\ UNCHANGED notPatchVars
    \/ \E p \in Scorers, reply \in ModelReplies :
          ScoreRaises(p, reply) /\ UNCHANGED notPatchVars
    \/ \E p \in Scorers : \E fresh \in FreshOlder(p) :
          ScoreOlder(p, fresh) /\ UNCHANGED notPatchVars
    \/ \E p \in Scorers : ScorerDone(p) /\ UNCHANGED notPatchVars

PatchInit == MwOff /\ ChatOff /\ PatchStarted /\ ChatbotEvalOff /\ AgentEvalOff
PatchSpec == PatchInit /\ [][PatchNext]_vars

ChatbotEvalNext ==
    \/ TaskCallsProvider /\ UNCHANGED notChatbotEvalVars
    \/ TaskRejectsProvider /\ UNCHANGED notChatbotEvalVars
    \/ ProviderReturns /\ UNCHANGED notChatbotEvalVars
    \/ ProviderRaises /\ UNCHANGED notChatbotEvalVars

ChatbotEvalInit == MwOff /\ ChatOff /\ PatchOff /\ ChatbotEvalStarted /\ AgentEvalOff
ChatbotEvalSpec == ChatbotEvalInit /\ [][ChatbotEvalNext]_vars

AgentEvalNext ==
    \/ AgentTaskExits /\ UNCHANGED notAgentEvalVars
    \/ \E location \in {"Paris"} : AgentTaskRuns(location) /\ UNCHANGED notAgentEvalVars
    \/ \E returncode \in ReturnCodes, stdout \in DOMAIN Stdouts :
          ProcessEnds(returncode, stdout) /\ UNCHANGED notAgentEvalVars
    \/ RunRaises /\ UNCHANGED notAgentEvalVars

AgentEvalInit == MwOff /\ ChatOff /\ PatchOff /\ ChatbotEvalOff /\ AgentEvalStarted
AgentEvalSpec == AgentEvalInit /\ [][AgentEvalNext]_vars


(* ======================================================================= *)
(* Properties of the tracing middleware                                    *)
(* ======================================================================= *)
\* the turn span a DispatchRun step has just started
NewTurn == turns'[Len(turns')]
HasCookie(cookies) == INSTANCE_COOKIE_NAME \in DOMAIN cookies
\* the session ids of the turn spans started so far
UsedSessionIds == { turns[t].session_id : t \in DOMAIN turns }
\* the request's turn span hangs under a new session span whose session id was never
\* used or sent before, not under a span stored for the referer
ForcedFresh(referer) ==
    /\ NewTurn.forced
    /\ NewTurn.session_id \notin UsedSessionIds
    /\ NewTurn.session_id # referer_session(referer)
    /\ NewTurn.key # referer_key(referer)
    /\ NewTurn.parent \notin DOMAIN bt_sessions
    /\ NewTurn.parent \notin { session_spans[k] : k \in DOMAIN session_spans }
UsesReferer(referer) ==
    referer_session(referer) # None =>
        /\ ~NewTurn.forced
        /\ NewTurn.session_id = referer_session(referer)
        /\ NewTurn.key = referer_key(referer)

\* C1 as stated: a run request whose instance cookie is present and differs from
\* SERVER_INSTANCE_ID gets a freshly generated session id, never the referer's; a run
\* request with no cookie or with the current cookie uses the referer's session id.
C1_AnyOtherCookieForcesNew ==
    [][\A path \in Paths, cookies \in CookieJars, referer \in Referers,
          f \in SweepFaults(Dicts, now) :
          DispatchRun(path, cookies, referer, f) =>
             IF HasCookie(cookies) /\ cookies[INSTANCE_COOKIE_NAME] # SERVER_INSTANCE_ID
             THEN ForcedFresh(referer)
             ELSE UsesReferer(referer)]_vars

\* C1, amended: a run request whose instance cookie is present, not empty and different
\* from SERVER_INSTANCE_ID gets a freshly generated session id, never the referer's;
\* a run request with no cookie, an empty cookie or the current cookie uses the
\* referer's session id when the referer has one.
C1_StaleCookieForcesNew ==
    [][\A path \in Paths, cookies \in CookieJars, referer \in Referers,
          f \in SweepFaults(Dicts, now) :
          DispatchRun(path, cookies, referer, f) =>
             IF /\ HasCookie(cookies)
                /\ cookies[INSTANCE_COOKIE_NAME] # ""
                /\ cookies[INSTANCE_COOKIE_NAME] # SERVER_INSTANCE_ID
             THEN ForcedFresh(referer)
             ELSE UsesReferer(referer)]_vars

\* a forced request whose referer names a session that already had a span in this
\* process, and a request that used its referer's session
C1_Witness ==
    /\ \E t \in DOMAIN turns :
          /\ turns[t].forced
          /\ \E i \in DOMAIN bt_sessions :
                /\ bt_sessions[i].key = turns[t].referer_key
                /\ i < turns[t].parent
    /\ \E t \in DOMAIN turns : ~turns[t].forced /\ turns[t].key = turns[t].referer_key

\* two traced run requests of one conversation: same process, cookie accepted, same
\* app, userId and session in the referer
SameConversation(t1, t2) ==
    /\ turns[t1].instance = turns[t2].instance
    /\ ~turns[t1].forced /\ ~turns[t2].forced
    /\ turns[t1].referer_key # None
    /\ turns[t1].referer_key = turns[t2].referer_key
Consecutive(t1, t2) ==
    /\ t1 < t2
    /\ SameConversation(t1, t2)
    /\ \A t \in DOMAIN turns : (t1 < t /\ t < t2) => ~SameConversation(t1, t)

C3_FollowUpJoinsForcedSession ==
    [][\A path \in Paths, referer \in Referers, f \in SweepFaults(Dicts, now) :
          DispatchRun(path, (INSTANCE_COOKIE_NAME :> SERVER_INSTANCE_ID), referer, f) =>
             \A t \in DOMAIN turns :
                (/\ turns[t].forced
                 /\ referer_session(referer) # None
                 /\ turns[t].instance = SERVER_INSTANCE_ID
                 /\ turns[t].set_cookie = SERVER_INSTANCE_ID
                 /\ turns[t].referer_key = referer_key(referer)
                 /\ now - turns[t].at <= SESSION_EXPIRY_SECONDS)
                => NewTurn.parent = turns[t].parent]_vars

\* the key sets of the four session dictionaries
StoredKeys == (DOMAIN session_spans) \cup (DOMAIN session_turn_counts)
              \cup (DOMAIN session_last_access) \cup (DOMAIN session_metadata)
\* no key of any of the four dictionaries is older than the expiry
NoStaleKey(keys, access, current_time) ==
    \A k \in keys :
        k \in DOMAIN access /\ current_time - access[k] <= SESSION_EXPIRY_SECONDS
\* the keys a sweep at this moment has to keep
FreshKeys == { k \in DOMAIN session_last_access :
               now - session_last_access[k] <= SESSION_EXPIRY_SECONDS }
\* every fresh key keeps its four entries; touched is the key the request itself uses
FreshKept(touched) ==
    \A k \in FreshKeys :
        /\ k \in DOMAIN session_spans' /\ session_spans'[k] = session_spans[k]
        /\ k \in DOMAIN session_metadata' /\ session_metadata'[k] = session_metadata[k]
        /\ k \in DOMAIN session_turn_counts' /\ k \in DOMAIN session_last_access'
        /\ k # touched =>
              /\ session_turn_counts'[k] = session_turn_counts[k]
              /\ session_last_access'[k] = session_last_access[k]
SweptPost(touched) ==
    /\ NoStaleKey(StoredKeys', session_last_access', now)
    /\ FreshKept(touched)

\* C4: every request the middleware handles (run or not, traced or not) sweeps first:
\* after it no key last accessed more than 3600 seconds ago is left in any of the four
\* dictionaries, and every key last accessed at most 3600 seconds ago keeps its entries.
C4_SweepRemovesExactlyExpired ==
    [][/\ \A path \in Paths, f \in SweepFaults(Dicts, now) :
             (DispatchOther(path, f) \/ DispatchUntraced(path, f)) => SweptPost(None)
       /\ \A path \in Paths, cookies \in CookieJars, referer \in Referers,
             f \in SweepFaults(Dicts, now) :
             DispatchRun(path, cookies, referer, f) => SweptPost(NewTurn.key)]_vars

\* a sweep has removed an expired session and kept one that was accessed half an hour
\* later and is still within the expiry
C4_Witness ==
    /\ \E i \in DOMAIN bt_sessions :
          bt_sessions[i].status = "expired" /\ bt_sessions[i].key \notin StoredKeys
    /\ \E k \in DOMAIN session_spans :
          /\ now - session_last_access[k] > 0
          /\ now - session_last_access[k] <= SESSION_EXPIRY_SECONDS

FinishedPcs == {"returned", "raised", "body_done", "body_closed", "body_dropped"}
\* C5 as stated: every turn span is ended exactly once on every path; not before its
\* request is over (for a streamed body: not before the last chunk).
C5_TurnSpanEndedOnce ==
    \A t \in DOMAIN turns :
        /\ turns[t].pc \in FinishedPcs => turns[t].end_calls = 1
        /\ turns[t].pc \in InFlightPcs => turns[t].end_calls = 0

\* C6 as stated: shutdown_event attempts end() once on every span in session_spans and
\* empties the four dictionaries, also when log or end raises.
C6_ShutdownEndsAll ==
    [][\A f \in [DOMAIN session_spans -> EndOutcomes] :
          Shutdown(f) =>
             /\ \A k \in DOMAIN session_spans :
                   bt_sessions'[session_spans[k]].end_calls =
                       bt_sessions[session_spans[k]].end_calls + 1
             /\ StoredKeys' = {}]_vars

RespondedPcs == {"returned", "body_pending", "body_streaming", "body_done",
                 "body_closed", "body_dropped"}
\* C7: every traced run request whose dispatch returned a response, streaming or not,
\* set the instance cookie to SERVER_INSTANCE_ID, and a client sending that cookie back
\* to the same process is judged a valid instance.
C7_ResponseSetsInstanceCookie ==
    \A t \in DOMAIN turns :
        turns[t].pc \in RespondedPcs =>
            /\ turns[t].set_cookie = turns[t].instance
            /\ turns[t].instance = SERVER_INSTANCE_ID =>
                  check_server_instance((INSTANCE_COOKIE_NAME :> turns[t].set_cookie),
                                        SERVER_INSTANCE_ID)

\* a streamed and a plain response have both been returned with the cookie
C7_Witness ==
    /\ \E t \in DOMAIN turns :
          turns[t].pc = "body_done" /\ turns[t].set_cookie = SERVER_INSTANCE_ID
    /\ \E t \in DOMAIN turns :
          turns[t].pc = "returned" /\ turns[t].set_cookie = SERVER_INSTANCE_ID

\* C8: tracing is off exactly when there is no logger (no or an empty API key); then run
\* requests go straight to the downstream handler, no span is created, no cookie is set
\* and the dictionaries stay empty; with tracing on, dispatch never gets None for the
\* session span.
C8_TracingDisabled ==
    /\ tracing_enabled <=> logger # None
    /\ tracing_enabled <=> (API_KEY_NAME \in DOMAIN environ /\ environ[API_KEY_NAME] # "")
    /\ ~tracing_enabled =>
          /\ turns = << >> /\ bt_sessions = << >>
          /\ StoredKeys = {}
          /\ last_response.set_cookie = None
    /\ \A t \in DOMAIN turns :
          turns[t].parent # NoSpan /\ turns[t].pc # "attribute_error"

\* a run request has been served with tracing disabled
C8_Witness ==
    ~tracing_enabled /\ last_response.path \in {"/run", "/run_sse"}


(* ======================================================================= *)
(* Properties of the chat applications                                     *)
(* ======================================================================= *)
EndCalls(s) ==
    Cardinality({ i \in DOMAIN span_events : span_events[i] = [op |-> "end", span |-> s] })
EndPos(s) == CHOOSE i \in DOMAIN span_events : span_events[i] = [op |-> "end", span |-> s]
StartPos(s) ==
    CHOOSE i \in DOMAIN span_events : span_events[i] = [op |-> "start", span |-> s]
\* the spans main() has started: every span but the session's
MainSpans == (DOMAIN spans) \ {session_span}
\* the name the parent of a span must have
ParentName(name) ==
    CASE name = "conversation_turn" -> "conversation_session"
      [] name = "tavily_search" -> LlmSpanName
      [] OTHER -> "conversation_turn"
\* main() has left its try blocks, normally or with an exception
MainLeftTry == cpc \in {"sending", "idle"}

\* C9: the conversation_turn span is a child of the session span, the
\* chat-completion span a child of the turn span, every tavily_search span a child
\* of the chat-completion span; no span is ended twice, a span whose parent is ended
\* was ended before it, and once main() has left its try blocks, by finishing or by
\* an exception from retrieval, streaming or tool execution, every span it started
\* has been ended exactly once.
C9_SpansClosedInNestingOrder ==
    /\ \A s \in MainSpans :
          /\ spans[s].name \in {"conversation_turn", LlmSpanName, "tavily_search"}
          /\ spans[s].parent \in DOMAIN spans
          /\ spans[spans[s].parent].name = ParentName(spans[s].name)
          /\ spans[s].name = "conversation_turn" => spans[s].parent = session_span
          /\ StartPos(spans[s].parent) < StartPos(s)
          /\ EndCalls(s) <= 1
          /\ EndCalls(s) = spans[s].end_calls
          /\ EndCalls(spans[s].parent) >= 1 =>
                /\ EndCalls(s) = 1
                /\ EndPos(s) < EndPos(spans[s].parent)
    /\ MainLeftTry => \A s \in MainSpans : EndCalls(s) = 1

\* a main() that the search itself ended with an exception: turn, chat-completion
\* and search span are all ended, the search span without results
C9_Witness ==
    /\ cpc = "idle"
    /\ outcome = "raised"
    /\ search_span \in MainSpans
    /\ spans[search_span].output = None
    /\ spans[search_span].parent = llm_span
    /\ spans[llm_span].parent = span
    /\ \A s \in {span, llm_span, search_span} : spans[s].end_calls = 1

Notices == { search_msg(q) : q \in {"", "tax"} }

\* C10: the answer is at every moment the concatenation of the tokens given to the
\* UI message; while main() runs these tokens are, in order, the content tokens the
\* model streams delivered and one notice per search run; and the answer logged on
\* the chat-completion span and stored as the AI message of the history is the
\* concatenation of everything streamed up to then.
C10_AnswerIsWhatWasStreamed ==
    /\ cpc # "off" => answer = Concat(ui_stream)
    /\ cpc \notin {"off", "idle"} => NonEmpty(ui_stream) = delivered
    /\ cpc = "sending" =>
          /\ spans[llm_span].output = Concat(ui_stream)
          /\ message_history[Len(message_history)] =
                [type |-> "ai", content |-> Concat(ui_stream)]
          /\ Cardinality({ i \in DOMAIN ui_stream : ui_stream[i] \in Notices }) =
             Cardinality({ s \in MainSpans : /\ spans[s].parent = llm_span
                                            /\ spans[s].output = "results" })

\* a completed answer made of a first-call token, a search notice and a follow-up
\* token
C10_Witness ==
    /\ cpc = "sending"
    /\ \E i, j, k \in DOMAIN ui_stream :
          /\ i < j /\ j < k
          /\ ui_stream[i] = "a"
          /\ ui_stream[j] \in Notices
          /\ ui_stream[k] = "b"
    /\ spans[llm_span].output = answer

\* main() has got past the tool round: it is in or after the follow-up stream, or it
\* went from the first stream to the completion
PastToolRound ==
    \/ cpc \in {"stream2", "completing", "sending"}
    \/ cpc = "idle" /\ outcome = "sent"
ToolMessageFollowsItsCall(i) ==
    /\ i > 1
    /\ messages[i - 1].role = "assistant"
    /\ \E c \in DOMAIN messages[i - 1].tool_calls :
          messages[i - 1].tool_calls[c].id = messages[i].tool_call_id

UpdatedBy(p, run) ==
    { updates[u].span : u \in { x \in DOMAIN updates : /\ updates[x].scorer = p
                                                       /\ updates[x].run = run } }

\* C12: when a run of main of score_traces.py has gone through its loop, every span
\* that was in the project logs at its fetch, tagged unscored and customer_service
\* and with input and output, has been scored and updated by that run, however
\* many such spans there were.
C12_RunScoresEveryMatchingSpan ==
    \A p \in DOMAIN scorer :
       scorer[p].pc = "done" =>
          /\ scorer[p].matched \subseteq UpdatedBy(p, scorer[p].runs)
          /\ scorer[p].older = scorer[p].matched_older

UpdatesOf(id) == { u \in DOMAIN updates : updates[u].span = id }
\* what the chatbot and the scorer write, and what the scorer selects
TagHandOff ==
    /\ \A id \in DOMAIN project_logs :
          /\ ~({"scored", "unscored"} \subseteq project_logs[id].tags)
          /\ project_logs[id].logged /\ UpdatesOf(id) = {} =>
                project_logs[id].tags = {"customer_service", "unscored"}
          /\ UpdatesOf(id) # {} => project_logs[id].tags = {"customer_service", "scored"}
    /\ \A p \in DOMAIN scorer : \A i \in DOMAIN scorer[p].rows :
          project_logs[scorer[p].rows[i]].logged

\* C13 as stated: the chatbot logs a conversation with the tags customer_service
\* and unscored, an update leaves exactly customer_service and scored, no span is
\* tagged both scored and unscored, and after any interleaving of chatbot and
\* scorer runs every span has been scored at most once.
C13_ScoredAtMostOnce ==
    /\ TagHandOff
    /\ \A id \in DOMAIN project_logs : Cardinality(UpdatesOf(id)) <= 1

\* the rows a Fetch step of scorer p has just got
FetchedRows(p) == { scorer'[p].rows[i] : i \in DOMAIN scorer'[p].rows }
\* C13 amended: the tag hand-off as above; a scorer run never selects a span that a
\* scorer run has updated before its fetch; and one run updates a span at most
\* once. A span is therefore scored at most once per scorer run that fetched it
\* before its first update: once only when scorer runs do not overlap.
C13_NotSelectedAfterUpdate ==
    /\ []TagHandOff
    /\ [](\A u, v \in DOMAIN updates :
             /\ updates[u].span = updates[v].span
             /\ updates[u].scorer = updates[v].scorer
             /\ updates[u].run = updates[v].run
             => u = v)
    /\ [][\A p \in Scorers : \A result \in BtqlResults :
             Fetch(p, result) => \A id \in FetchedRows(p) :
                                    /\ UpdatesOf(id) = {}
                                    /\ Matches(project_logs[id])]_vars

\* a span scored by one scorer run, while a scorer run that fetches afterwards gets
\* no row for it
C13_Witness ==
    \E p, q \in DOMAIN scorer :
       /\ p # q
       /\ scorer[p].pc = "done"
       /\ UpdatedBy(p, scorer[p].runs) # {}
       /\ scorer[q].pc = "done"
       /\ scorer[q].runs = 1
       /\ scorer[q].rows = << >>
       /\ updates[Len(updates)].scorer = p
       /\ backlog = 0

\* a fraction between 0 and 1 inclusive
InUnitRange(q) == q.den > 0 /\ 0 <= q.num /\ q.num <= q.den

\* C14: every span that main of score_traces.py has updated carries under scores.nps
\* the model's score divided by 10, a value between 0 and 1 inclusive, and under
\* metadata.nps_score an integer between 0 and 10, whatever integer the scoring
\* model returned.
C14_NpsNormalized ==
    \A id \in DOMAIN project_logs :
       UpdatesOf(id) # {} =>
          /\ project_logs[id].scores["nps"] = Div10(project_logs[id].metadata.nps_score)
          /\ InUnitRange(project_logs[id].scores["nps"])
          /\ project_logs[id].metadata.nps_score \in 0..10

NumConversations == Len(CONVERSATIONS)
\* the span of conversation k as handle_conversation logs it
LoggedAsConversation(s, k) ==
    /\ s.input = ("message" :> CONVERSATIONS[k].message)
    /\ s.output \in Contents
    /\ \A key \in {"customer_id", "ticket_id", "topic", "channel"} :
          /\ key \in DOMAIN s.metadata
          /\ s.metadata[key] = CONVERSATIONS[k][key]
    /\ "model" \in DOMAIN s.metadata
    /\ s.tags \in {{"customer_service", "unscored"}, {"customer_service", "scored"}}
    /\ UpdatesOf(k) = {} => s.tags = {"customer_service", "unscored"}

EffectiveProvider ==
    LET params == Get(ce_hooks, "parameters", << >>)
    IN lower(IF "AI_PROVIDER" \in DOMAIN ce_environ THEN ce_environ["AI_PROVIDER"]
             ELSE IF "provider" \in DOMAIN params THEN params["provider"]
             ELSE OPENAI)
ProviderFunction ==
    (ANTHROPIC :> "call_anthropic") @@ (OPENAI :> "call_openai")
    @@ (MISTRAL :> "call_mistral")

\* C16: once task_wrapper of remote_chatbot_eval.py has got past the choice of the
\* provider, it has called exactly one provider function, the one of the effective
\* provider, when that is anthropic, openai or mistral; for any other effective
\* provider it has called none and raised ValueError.
C16_OneProviderCalled ==
    /\ ce_pc \in {"ready", "off"} => ce_calls = << >>
    /\ ce_pc \in {"calling", "returned", "raised"} =>
          IF EffectiveProvider \in DOMAIN ProviderFunction
          THEN /\ Len(ce_calls) = 1
               /\ ce_calls[1].call = ProviderFunction[EffectiveProvider]
          ELSE /\ ce_calls = << >>
               /\ ce_pc = "raised"
               /\ ce_result = "ValueError"

\* AI_PROVIDER=ANTHROPIC overrides the parameter openai: call_anthropic answered
C16_Witness ==
    /\ ce_pc = "returned"
    /\ "AI_PROVIDER" \in DOMAIN ce_environ
    /\ ce_environ["AI_PROVIDER"] = <<"A", "N", "T", "H", "R", "O", "P", "I", "C">>
    /\ "parameters" \in DOMAIN ce_hooks
    /\ "provider" \in DOMAIN ce_hooks["parameters"]
    /\ ce_hooks["parameters"]["provider"] = OPENAI
    /\ ce_calls[1].call = "call_anthropic"

CwdAccepted == Contains(ae_cwd, REMOTE_EVALS_DIR)
\* stdout is JSON text of an object
StdoutObject(stdout) == Stdouts[stdout] # << >> /\ Stdouts[stdout][1].kind = "dict"

\* C17: task_wrapper of remote_agent_eval.py exits without starting the Ruby
\* process when the working directory does not contain ruby/evals/remote_evals;
\* otherwise it starts it once, and when the process has ended a non-zero return
\* code raises RuntimeError whatever stdout holds, else stdout that is not JSON
\* raises ValueError, else a JSON object without the key result raises KeyError; a
\* value is returned only when all these checks pass, and it is output_data['result'].
C17_ChecksInOrder ==
    /\ ae_pc = "exited" <=> (ae_pc \notin {"ready", "off"} /\ ~CwdAccepted)
    /\ ae_pc = "exited" => ae_runs = << >> /\ ae_result = RaisedError("SystemExit")
    /\ ae_pc \in {"running", "returned", "raised"} => Len(ae_runs) = 1
    /\ ae_pc \in {"returned", "raised"} /\ ae_process # << >> =>
          LET returncode == ae_process[1].returncode
              stdout == ae_process[1].stdout
          IN /\ returncode # 0 => ae_result = RaisedError("RuntimeError")
             /\ returncode = 0 /\ Stdouts[stdout] = << >> =>
                   ae_result = RaisedError("ValueError")
             /\ returncode = 0 /\ StdoutObject(stdout)
                /\ "result" \notin DOMAIN Stdouts[stdout][1].value =>
                   ae_result = RaisedError("KeyError")
             /\ ae_pc = "returned" <=>
                   /\ returncode = 0
                   /\ StdoutObject(stdout)
                   /\ "result" \in DOMAIN Stdouts[stdout][1].value
             /\ ae_pc = "returned" =>
                   ae_result = Returned(Stdouts[stdout][1].value["result"])
    /\ ae_pc = "returned" => ae_process # << >> /\ CwdAccepted

\* the Ruby process failed although it printed a JSON object with a result
C17_Witness ==
    /\ ae_pc = "raised"
    /\ ae_process # << >>
    /\ ae_process[1].returncode # 0
    /\ ae_process[1].stdout = "{\"result\": \"sunny\"}"
    /\ ae_result = RaisedError("RuntimeError")

====
